---- MODULE Spec2Model ----
(***************************************************************************)
(* Layer reconciliation of deck.gl: LayerManager (setLayers and the        *)
(* matching walk), LayerObject (lifecycle, change flags, the data path)    *)
(* and LayerState (asynchronous properties).                               *)
(*                                                                         *)
(* Layer objects and their InternalState records live in two heaps, objs   *)
(* and sts, addressed by index; 0 is null.  A JavaScript value that is     *)
(* only tested for truthiness (a change flag, a redraw reason) is a set:   *)
(* {} is falsy (false, undefined, null), a non-empty set is truthy and     *)
(* holds the reason(s).  One setLayers call is one step.                   *)
(*                                                                         *)
(* LayerState's constructor checks that it was handed an attribute manager *)
(* (lifecycle-object.js:427); the attribute manager is outside this model  *)
(* and the allocation of an InternalState is taken to succeed.             *)
(***************************************************************************)
EXTENDS Integers, Sequences, FiniteSets, TLC

VARIABLES
  objs,                \* heap of layer objects (LayerObject instances)
  sts,                 \* heap of InternalState records (LayerState instances)
  aps,                 \* heap of asyncProp records held in LayerState.asyncValues
  lastRenderedLayers,  \* LayerManager.lastRenderedLayers: an array reference
  prevLayers,          \* LayerManager.prevLayers
  layers,              \* LayerManager.layers: the live list
  mgrNeedsRedraw,      \* LayerManager._needsRedraw
  viewport,            \* LayerManager.context.viewport
  layerFilter,         \* LayerManager.context.layerFilter
  loads,               \* fetches of LayerObject._loadData in flight
  asyncLoads,          \* fetches of LayerState._loadAsyncProp in flight
  call,                \* the last call or completion handler and its outcome
  app                  \* the application: the descriptors it constructs

vars == <<objs, sts, aps, lastRenderedLayers, prevLayers, layers, mgrNeedsRedraw,
          viewport, layerFilter, loads, asyncLoads, call, app>>

----------------------------------------------------------------------------
(* Bounds of the model *)

MaxLen == 2          \* longest descriptor list an application submits
MaxLoads == 2        \* most fetches in flight at once, per kind
MaxLoadCount == 3    \* most loads started on one asyncProp
MaxFinCalls == 2     \* finalizeState calls on one object are counted up to this

----------------------------------------------------------------------------
(* Values *)

Null == 0

NO_STATE == "NO_STATE"
INITIALIZED == "INITIALIZED"
MATCHED == "MATCHED"
AWAITING_GC == "AWAITING_GC"
AWAITING_FINALIZATION == "AWAITING_FINALIZATION"
FINALIZED == "FINALIZED"

Falsy == {}
True == {"true"}
Truthy(v) == v # {}
\* JavaScript a || b
Or(a, b) == IF Truthy(a) THEN a ELSE b

\* the values of a data prop: inline data, or a string taken as a URL
Urls == {"u1", "u2"}
Inline == {"d1"}
IsString(v) == v \in Urls
\* what fetch(url) resolves to
Fetched(url) == <<"loaded", url>>

\* the sequence f[1], ..., f[n]
RECURSIVE SeqOf(_, _)
SeqOf(f, n) == IF n = 0 THEN <<>> ELSE Append(SeqOf(f, n - 1), f[n])

\* const x = v; followed by the statements K
With(v, K(_)) == K(v)

NoError == <<>>
Err(what, id) == <<what, id>>

----------------------------------------------------------------------------
(* Change flags: LayerObject.setChangeFlags / clearChangeFlags *)

Undefined == "undefined"

NoFlags ==
  [dataChanged |-> Falsy, propsChanged |-> Falsy, updateTriggersChanged |-> Falsy,
   viewportChanged |-> Falsy, propsOrDataChanged |-> Falsy, somethingChanged |-> Falsy]

\* the flags argument of a setChangeFlags call; a field left out is undefined
Flags(d, p, t, v) ==
  [dataChanged |-> d, propsChanged |-> p, updateTriggersChanged |-> t,
   viewportChanged |-> v]

\* cf is internalState.changeFlags || {}: a missing record has every flag
\* undefined, which is NoFlags here
setChangeFlags(cf, flags) ==
  LET pod == Or(flags.dataChanged, Or(flags.updateTriggersChanged, flags.propsChanged))
  IN [dataChanged |->
        IF Truthy(flags.dataChanged) /\ ~Truthy(cf.dataChanged)
        THEN flags.dataChanged ELSE cf.dataChanged,
      updateTriggersChanged |->
        IF Truthy(flags.updateTriggersChanged) /\ ~Truthy(cf.updateTriggersChanged)
        THEN (IF Truthy(cf.updateTriggersChanged) /\ Truthy(flags.updateTriggersChanged)
              THEN flags.updateTriggersChanged \cup cf.updateTriggersChanged
              ELSE Or(flags.updateTriggersChanged, cf.updateTriggersChanged))
        ELSE cf.updateTriggersChanged,
      propsChanged |->
        IF Truthy(flags.propsChanged) /\ ~Truthy(cf.propsChanged)
        THEN flags.propsChanged ELSE cf.propsChanged,
      viewportChanged |->
        IF Truthy(flags.viewportChanged) /\ ~Truthy(cf.viewportChanged)
        THEN flags.viewportChanged ELSE cf.viewportChanged,
      propsOrDataChanged |-> Or(cf.propsOrDataChanged, pod),
      somethingChanged |-> Or(cf.somethingChanged, Or(pod, flags.viewportChanged))]

\* a clearChangeFlags that leaves a derived flag set
clearChangeFlags_KeepsDerived == [NoFlags EXCEPT !.somethingChanged = True]

clearChangeFlags == NoFlags

----------------------------------------------------------------------------
(* Layer objects and InternalState records *)

\* the props of a layer that the model follows: the data prop and, for a
\* composite layer, the descriptors its renderLayers produces
Props(data, subs) == [data |-> data, subs |-> subs]
EMPTY_PROPS == Props(Undefined, <<>>)

EMPTY_ARRAY == <<"empty">>
NullData == <<"null">>
UndefinedData == <<"undefined">>

\* new LayerObject(props): a descriptor.  cls names the subclass: which of its
\* hooks throw and whether it is composite.  depth, trail, the call counters,
\* seen and ran are history: the nesting depth of the descriptor, the lifecycle
\* values the object went through in the current pass, how often initializeState
\* and updateState were called on it in the current pass and finalizeState ever,
\* the change flags the last updateState call of the pass saw, and how the
\* object's _initialize or _update ended in the current pass.
LayerObject(spec, depth) ==
  [id |-> spec.id, cls |-> spec.cls, props |-> Props(spec.data, spec.subs),
   oldProps |-> EMPTY_PROPS, lifecycle |-> NO_STATE, st |-> Null,
   depth |-> depth, trail |-> <<NO_STATE>>,
   initCalls |-> 0, updCalls |-> 0, finCalls |-> 0,
   seen |-> <<>>, ran |-> "none"]

isComposite(o) == o.cls \in {"composite", "subThrows"}

\* new LayerState({attributeManager}); data, lastUrl and changeFlags are the
\* members LayerObject adds to it later: hasFlags says whether changeFlags is
\* defined yet.  layer is the back pointer: <<>> for null, else <<id>>, the id
\* of the layer object it was last pointed at (the manager only writes it).
\* asyncValues holds one property, data: the index of its asyncProp record in
\* aps, or Null when the map has no entry.
LayerState ==
  [needsRedraw |-> True, subLayers |-> <<>>, layer |-> <<>>, asyncValues |-> Null,
   hasFlags |-> FALSE, changeFlags |-> NoFlags,
   lastUrl |-> Undefined, data |-> UndefinedData]

SetLifecycle(o, lc) ==
  [o EXCEPT !.lifecycle = lc,
            !.trail = IF o.trail[Len(o.trail)] = lc THEN o.trail
                      ELSE Append(o.trail, lc)]

\* A world: the heaps and the manager state a pass works on.
\*   map: the pass's oldLayerMap, id -> object, Missing (undefined) or Null
\*   gen: the pass's generatedLayers;  warns: what log.warn was given
Missing == -1

Done(w) == [w |-> w, exc |-> NoError]
Throw(w, e) == [w |-> w, exc |-> e]
Threw(r) == r.exc # NoError

SetObj(w, o, rec) == [w EXCEPT !.objs[o] = rec]
SetSt(w, s, rec) == [w EXCEPT !.sts[s] = rec]
StOf(w, o) == w.objs[o].st

\* layer.setChangeFlags(flags) / layer.clearChangeFlags()
SetFlagsOf(w, o, flags) ==
  LET s == StOf(w, o)
  IN SetSt(w, s, [w.sts[s] EXCEPT
                    !.changeFlags = setChangeFlags(w.sts[s].changeFlags, flags),
                                  !.hasFlags = TRUE])

ClearFlagsOf(w, o) ==
  LET s == StOf(w, o)
  IN SetSt(w, s, [w.sts[s] EXCEPT !.changeFlags = clearChangeFlags,
                                  !.hasFlags = TRUE])

\* LayerObject._loadData: ret is its return value
_loadData(w, o) ==
  LET s == StOf(w, o)
      st == w.sts[s]
      data == w.objs[o].props.data
  IN IF IsString(data)
     THEN IF data # st.lastUrl
          THEN [w |-> [SetSt(w, s, [st EXCEPT
                          !.data = IF st.data \in {UndefinedData, NullData}
                                   THEN EMPTY_ARRAY ELSE st.data,
                          !.lastUrl = data])
                       EXCEPT !.loads = w.loads \cup {[layer |-> o, url |-> data]}],
                ret |-> TRUE]
          ELSE [w |-> w, ret |-> FALSE]
     ELSE [w |-> SetSt(w, s, [st EXCEPT !.data = NullData]), ret |-> FALSE]

\* the subclass hooks; each counts its call and throws if the subclass says so
initializeState(w, o) ==
  LET w1 == SetObj(w, o, [w.objs[o] EXCEPT !.initCalls = w.objs[o].initCalls + 1])
  IN IF w.objs[o].cls = "initThrows"
     THEN Throw(w1, Err("initializeState", w.objs[o].id)) ELSE Done(w1)

updateState(w, o) ==
  LET w1 == SetObj(w, o, [w.objs[o] EXCEPT
                             !.updCalls = w.objs[o].updCalls + 1,
                             !.seen = <<w.sts[StOf(w, o)].changeFlags>>])
  IN IF w.objs[o].cls = "updThrows"
     THEN Throw(w1, Err("updateState", w.objs[o].id)) ELSE Done(w1)

finalizeState(w, o) ==
  LET w1 == SetObj(w, o, [w.objs[o] EXCEPT
                             !.finCalls = IF w.objs[o].finCalls < MaxFinCalls
                                          THEN w.objs[o].finCalls + 1 ELSE MaxFinCalls])
  IN IF w.objs[o].cls = "finThrows"
     THEN Throw(w1, Err("finalizeState", w.objs[o].id)) ELSE Done(w1)

\* CompositeLayer._renderLayers: constructs the sub-layer descriptors anew and
\* keeps them in internalState.subLayers
_renderLayers(w, o) ==
  LET subs == w.objs[o].props.subs
      n == Len(w.objs)
      w1 == [w EXCEPT !.objs = w.objs \o
                 SeqOf([i \in 1..Len(subs) |-> LayerObject(subs[i], w.objs[o].depth + 1)],
                       Len(subs))]
      s == StOf(w, o)
  IN SetSt(w1, s, [w1.sts[s] EXCEPT !.subLayers = SeqOf([i \in 1..Len(subs) |-> n + i], Len(subs))])

\* CompositeLayer.getSubLayers
getSubLayers(w, o) ==
  IF w.objs[o].cls = "subThrows"
  THEN [w |-> w, exc |-> Err("getSubLayers", w.objs[o].id), ret |-> <<>>]
  ELSE [w |-> w, exc |-> NoError, ret |-> w.sts[StOf(w, o)].subLayers]

\* LayerObject._initialize
_initialize(w, o) ==
  IF w.objs[o].st # Null
  THEN Throw(w, Err("AssertionError", w.objs[o].id))
  ELSE
    With(initializeState(SetObj([w EXCEPT !.sts = Append(w.sts, LayerState)], o,
                                [w.objs[o] EXCEPT !.st = Len(w.sts) + 1]), o),
         LAMBDA r2 :
    IF Threw(r2) THEN r2
    ELSE
      With(updateState(_loadData(SetFlagsOf(r2.w, o, Flags(True, True, Falsy, True)), o).w, o),
           LAMBDA r5 :
      IF Threw(r5) THEN r5
      ELSE Done(ClearFlagsOf(IF isComposite(w.objs[o]) THEN _renderLayers(r5.w, o)
                                                         ELSE r5.w, o))))

\* diffProps of ./props: which props differ between two prop bags.  Descriptors
\* carry no updateTriggers and no dataComparator.
diffPropsOf(newProps, oldProps) ==
  Flags(IF newProps.data # oldProps.data THEN True ELSE Falsy,
        IF newProps.subs # oldProps.subs THEN True ELSE Falsy,
        Falsy, Falsy)

\* a diffProps that flags the data change at once
Postponed_Never(changeFlags, loading) == changeFlags

\* diffProps postpones the data changed flag until loaded
Postponed(changeFlags, loading) ==
  IF loading THEN [changeFlags EXCEPT !.dataChanged = Falsy] ELSE changeFlags

\* LayerObject.diffProps
diffProps(w, o) ==
  With(diffPropsOf(w.objs[o].props, w.objs[o].oldProps), LAMBDA changeFlags :
    IF Truthy(changeFlags.dataChanged)
    THEN With(_loadData(w, o), LAMBDA r :
           SetFlagsOf(r.w, o, Postponed(changeFlags, r.ret)))
    ELSE SetFlagsOf(w, o, changeFlags))

\* LayerObject._transferState
_transferState(w, o, oldLayer) ==
  IF w.objs[oldLayer].st = Null
  THEN Throw(w, Err("AssertionError", w.objs[o].id))
  ELSE Done(diffProps(SetObj(w, o, [w.objs[o] EXCEPT
                                      !.st = w.objs[oldLayer].st,
                                      !.oldProps = w.objs[oldLayer].props]), o))

\* a shouldUpdateState that looks at the props only
shouldUpdateState_PropsOnly(changeFlags) == Truthy(changeFlags.propsChanged)

\* LayerObject.shouldUpdateState, the default one
shouldUpdateState(changeFlags) == Truthy(changeFlags.propsOrDataChanged)

\* LayerObject._update
_update(w, o) ==
  IF ~w.sts[StOf(w, o)].hasFlags
  THEN Throw(w, Err("TypeError", w.objs[o].id))
  ELSE
    With(IF shouldUpdateState(w.sts[StOf(w, o)].changeFlags)
         THEN updateState(w, o) ELSE Done(w),
         LAMBDA r1 :
    IF Threw(r1) THEN r1
    ELSE Done(ClearFlagsOf(IF isComposite(w.objs[o]) THEN _renderLayers(r1.w, o)
                                                       ELSE r1.w, o)))

\* LayerObject._finalize
_finalize(w, o) ==
  IF w.objs[o].st = Null
  THEN Throw(w, Err("AssertionError", w.objs[o].id))
  ELSE finalizeState(w, o)

----------------------------------------------------------------------------
(* LayerManager: the matching walk *)

\* ids of top-level layers and of the sub-layers composite layers generate
Ids == {"a", "b", "ab"}
SubIds == {"a-s", "a-t"}
AllIds == Ids \cup SubIds

Warn(w, msg, id) == [w EXCEPT !.warns = w.warns \cup {<<msg, id>>}]

\* LayerManager._initializeLayer: ret is the error it returns
_initializeLayer(w, layer) ==
  With(_initialize(w, layer), LAMBDA r :
  With(IF Threw(r)
       THEN Warn(SetObj(r.w, layer, [r.w.objs[layer] EXCEPT !.ran = "threw"]),
                 "error while initializing", w.objs[layer].id)
       ELSE SetObj(r.w, layer,
                   [SetLifecycle(r.w.objs[layer], INITIALIZED) EXCEPT !.ran = "ok"]),
       LAMBDA w1 :
    IF StOf(w1, layer) = Null
    THEN [w |-> w1, exc |-> Err("TypeError", w.objs[layer].id), ret |-> r.exc]
    ELSE [w |-> SetSt(w1, StOf(w1, layer),
                      [w1.sts[StOf(w1, layer)] EXCEPT !.layer = <<w.objs[layer].id>>]),
          exc |-> NoError, ret |-> r.exc]))

\* LayerManager._transferLayerState
_transferLayerState(w, oldLayer, newLayer) ==
  IF newLayer # oldLayer
  THEN With(SetObj(w, newLayer, SetLifecycle(w.objs[newLayer], MATCHED)), LAMBDA w1 :
         _transferState(SetObj(w1, oldLayer, SetLifecycle(w1.objs[oldLayer], AWAITING_GC)),
                        newLayer, oldLayer))
  ELSE Done(SetObj(w, newLayer,
                   [SetLifecycle(w.objs[newLayer], MATCHED)
                      EXCEPT !.oldProps = w.objs[newLayer].props]))

\* LayerManager._updateLayer: ret is the error it returns.  Its log line calls
\* layer.printChangeFlags() before the try block, which reads the flags.
_updateLayer(w, layer) ==
  IF ~w.sts[StOf(w, layer)].hasFlags
  THEN [w |-> w, exc |-> Err("TypeError", w.objs[layer].id), ret |-> NoError]
  ELSE With(_update(w, layer), LAMBDA r :
       With(SetObj(r.w, layer, [r.w.objs[layer] EXCEPT
                                  !.ran = IF Threw(r) THEN "threw" ELSE "ok"]),
            LAMBDA w1 :
         [w |-> IF Threw(r) THEN Warn(w1, "error during update", w.objs[layer].id) ELSE w1,
          exc |-> NoError, ret |-> r.exc]))

\* the try block of _updateSublayersRecursively for one layer: initialize or
\* transfer and update, then push, then ask a composite for its sub-layers;
\* ret is sublayers
MatchLayer(w, oldLayer, newLayer) ==
  With(IF oldLayer \in {Missing, Null}
       THEN _initializeLayer(w, newLayer)
       ELSE With(_transferLayerState(w, oldLayer, newLayer), LAMBDA t :
              IF Threw(t) THEN t ELSE _updateLayer(t.w, newLayer)),
       LAMBDA r :
    IF Threw(r) THEN [w |-> r.w, exc |-> r.exc, ret |-> <<>>]
    ELSE With([r.w EXCEPT !.gen = Append(r.w.gen, newLayer)], LAMBDA w3 :
           IF isComposite(w3.objs[newLayer])
           THEN getSubLayers(w3, newLayer)
           ELSE [w |-> w3, exc |-> NoError, ret |-> <<>>]))

\* a loop that a layer whose hook threw ends
AfterLayer_StopOnThrow(w, newLayers, i) ==
  IF w.objs[newLayers[i]].ran = "threw" THEN Len(newLayers) + 1 ELSE i + 1

\* the for loop of _updateSublayersRecursively: the index it goes on with after
\* the i-th new layer
AfterLayer(w, newLayers, i) == i + 1

\* a walk that leaves the old layer among the candidates
RemoveCandidate_Never(map, id) == map

\* oldLayerMap[newLayer.id] = null: the old layer is no candidate any more
RemoveCandidate(map, id) == [map EXCEPT ![id] = Null]

\* LayerManager._updateSublayersRecursively, from the i-th new layer on;
\* error is the first exception recorded so far
RECURSIVE _updateSublayersRecursively(_, _, _, _)
_updateSublayersRecursively(w, newLayers, i, error) ==
  IF i > Len(newLayers) THEN [w |-> w, error |-> error]
  ELSE
    With(w.objs[newLayers[i]].id, LAMBDA id :
    With(w.map[id], LAMBDA oldLayer :
    With(MatchLayer([(IF oldLayer = Null
                      THEN Warn(w, "Multiple new layers with same id", id) ELSE w)
                       EXCEPT !.map = RemoveCandidate(w.map, id)],
                    oldLayer, newLayers[i]),
         LAMBDA g :
    With(IF Threw(g) THEN Warn(g.w, "error during matching", id) ELSE g.w, LAMBDA w4 :
      _updateSublayersRecursively(
        IF g.ret # <<>> THEN _updateSublayersRecursively(w4, g.ret, 1, NoError).w ELSE w4,
        newLayers, AfterLayer(w4, newLayers, i),
        IF error # NoError THEN error ELSE g.exc)))))

\* LayerManager._finalizeLayer: ret is the error it returns
_finalizeLayer(w, layer) ==
  IF w.objs[layer].lifecycle = AWAITING_FINALIZATION
  THEN [w |-> w, exc |-> Err("AssertionError", w.objs[layer].id), ret |-> NoError]
  ELSE
    With(_finalize([SetObj(w, layer, SetLifecycle(w.objs[layer], AWAITING_FINALIZATION))
                      EXCEPT !.redraw = Or(w.redraw, {<<"finalized", w.objs[layer].id>>})],
                   layer),
         LAMBDA r :
    With(IF Threw(r) THEN Warn(r.w, "error during finalization", w.objs[layer].id) ELSE r.w,
         LAMBDA w3 :
      [w |-> SetObj(w3, layer, SetLifecycle(w3.objs[layer], FINALIZED)),
       exc |-> NoError, ret |-> r.exc]))

\* LayerManager._finalizeOldLayers: the keys of oldLayerMap in insertion order,
\* from the i-th on
RECURSIVE _finalizeOldLayers(_, _, _)
_finalizeOldLayers(w, i, error) ==
  IF i > Len(w.keys) THEN [w |-> w, exc |-> NoError, error |-> error]
  ELSE IF w.map[w.keys[i]] \in {Missing, Null} \/ error # NoError
  THEN _finalizeOldLayers(w, i + 1, error)
  ELSE With(_finalizeLayer(w, w.map[w.keys[i]]), LAMBDA r :
         IF Threw(r) THEN [w |-> r.w, exc |-> r.exc, error |-> error]
         ELSE _finalizeOldLayers(r.w, i + 1, r.ret))

\* an oldLayerMap that is never filled
OldLayerMap_Empty(w, oldLayers, i) == w

\* the oldLayerMap of LayerManager._updateLayers, from the i-th old layer on
RECURSIVE OldLayerMap(_, _, _)
OldLayerMap(w, oldLayers, i) ==
  IF i > Len(oldLayers) THEN w
  ELSE OldLayerMap(IF w.map[w.objs[oldLayers[i]].id] # Missing
                   THEN Warn(w, "Multiple old layers with same id", w.objs[oldLayers[i]].id)
                   ELSE [w EXCEPT !.map[w.objs[oldLayers[i]].id] = oldLayers[i],
                                  !.keys = Append(w.keys, w.objs[oldLayers[i]].id)],
                   oldLayers, i + 1)

\* LayerManager._updateLayers
_updateLayers(w, oldLayers, newLayers) ==
  With(_updateSublayersRecursively(
         OldLayerMap([w EXCEPT !.map = [id \in AllIds |-> Missing],
                               !.keys = <<>>, !.gen = <<>>],
                     oldLayers, 1),
         newLayers, 1, NoError),
       LAMBDA m :
  With(_finalizeOldLayers(m.w, 1, NoError), LAMBDA f :
    [w |-> f.w, exc |-> f.exc,
     error |-> IF m.error # NoError THEN m.error ELSE f.error]))

----------------------------------------------------------------------------
(* Heap housekeeping: objects no reference of the program reaches any more  *)
(* are dropped and the rest renumbered, so that equal situations are equal  *)
(* states.                                                                  *)

Range(seq) == {seq[i] : i \in 1..Len(seq)}

RECURSIVE AddAll(_, _, _)
AddAll(seq, xs, i) ==
  IF i > Len(xs) THEN seq
  ELSE AddAll(IF xs[i] = Null \/ xs[i] \in Range(seq) THEN seq ELSE Append(seq, xs[i]),
              xs, i + 1)

RECURSIVE SortedSeq(_)
SortedSeq(S) ==
  IF S = {} THEN <<>>
  ELSE LET m == CHOOSE x \in S : \A y \in S : x <= y
       IN <<m>> \o SortedSeq(S \ {m})

\* the objects an object's InternalState refers to
RefsOf(w, o) ==
  LET s == w.objs[o].st
  IN IF s = Null THEN <<>> ELSE w.sts[s].subLayers

RECURSIVE Reach(_, _, _)
Reach(w, keep, i) ==
  IF i > Len(keep) THEN keep
  ELSE Reach(w, AddAll(keep, RefsOf(w, keep[i]), 1), i + 1)

IndexIn(seq, x) == IF x = Null THEN Null ELSE CHOOSE i \in 1..Len(seq) : seq[i] = x

\* what is kept of a layer object that only the callback of a fetch in flight
\* still refers to: its id and its internalState reference
Husk(o) ==
  [id |-> o.id, cls |-> "", props |-> EMPTY_PROPS, oldProps |-> EMPTY_PROPS,
   lifecycle |-> NO_STATE, st |-> o.st, depth |-> 0, trail |-> <<>>,
   initCalls |-> 0, updCalls |-> 0, finCalls |-> 0, seen |-> <<>>, ran |-> "none"]

\* w with its heaps cut down to what roots (the manager's lists) and the
\* fetches in flight reach; lists are sequences of object indices to renumber
\* along
Compact(w, roots) ==
  LET held == Reach(w, AddAll(<<>>, roots, 1), 1)
      keep == AddAll(held, SortedSeq({l.layer : l \in w.loads}), 1)
      stKeep == AddAll(<<>>, SeqOf([i \in 1..Len(keep) |-> w.objs[keep[i]].st], Len(keep)), 1)
      O(x) == IndexIn(keep, x)
      S(x) == IndexIn(stKeep, x)
  IN [objs |-> SeqOf([i \in 1..Len(keep) |->
                        [(IF i <= Len(held) THEN w.objs[keep[i]] ELSE Husk(w.objs[keep[i]]))
                           EXCEPT !.st = S(w.objs[keep[i]].st)]],
                     Len(keep)),
      sts |-> SeqOf([i \in 1..Len(stKeep) |->
                       [w.sts[stKeep[i]] EXCEPT
                          !.subLayers =
                            SeqOf([j \in 1..Len(w.sts[stKeep[i]].subLayers) |->
                                     O(w.sts[stKeep[i]].subLayers[j])],
                                  Len(w.sts[stKeep[i]].subLayers))]],
                    Len(stKeep)),
      loads |-> {[l EXCEPT !.layer = O(l.layer)] : l \in w.loads},
      O |-> [x \in Range(keep) |-> O(x)]]

----------------------------------------------------------------------------
(* What the application submits *)

Descriptor(id, cls, data, subs) == [id |-> id, cls |-> cls, data |-> data, subs |-> subs]
Leaf(id, cls, data) == Descriptor(id, cls, data, <<>>)
NoSpec == Leaf("", "", "")

\* the layer classes and props the applications followed construct their
\* descriptors from
Plain == {Leaf("a", "ok", "d1"), Leaf("a", "ok", "d2"), Leaf("b", "ok", "d1")}
Throwing == {Leaf("a", "initThrows", "d1"), Leaf("a", "updThrows", "d1"), Leaf("b", "ok", "d1")}
Finalizing == {Leaf("a", "finThrows", "d1"), Leaf("a", "ok", "d1"), Leaf("b", "ok", "d1")}
Loading == {Leaf("a", "ok", "u1"), Leaf("a", "ok", "u2")}
Nesting ==
  {Descriptor("a", "composite", "d1", <<Leaf("a-s", "ok", "d1")>>),
   Descriptor("a", "composite", "d1", <<Leaf("a-t", "ok", "d1")>>),
   Descriptor("a", "subThrows", "d1", <<Leaf("a-s", "ok", "d1")>>)}
Reusing == {Leaf("a", "ok", "d1"), Leaf("b", "ok", "d1")}
Prefixed == {Leaf("a", "ok", "d1"), Leaf("ab", "ok", "d1")}
Resubmitting == {Leaf("a", "initThrows", "d1"), Leaf("b", "ok", "d1")}
Retiring == {Leaf("a", "ok", "d1")}
Deep ==
  {Descriptor("a", "composite", "d1", <<Descriptor("a-s", "subThrows", "d1", <<>>)>>),
   Leaf("b", "ok", "d1")}
Mixing ==
  {Leaf("b", "finThrows", "d1"),
   Descriptor("a", "composite", "d1", <<Leaf("a-s", "ok", "d1")>>)}

\* an application: its descriptors, whether it submits layer objects of the
\* live list again, and whether it puts two layers of one id into an array
App(specs, reuse, dup) == [specs |-> specs, reuse |-> reuse, dup |-> dup, keeps |-> FALSE]

\* an application that also keeps the layer objects of the list before the
\* last pass and submits them again
Keeping(a) == [a EXCEPT !.keeps = TRUE]
Apps ==
  {App(Plain, FALSE, TRUE), App(Throwing, FALSE, FALSE), App(Finalizing, FALSE, FALSE),
   App(Loading, FALSE, FALSE), App(Nesting, FALSE, FALSE), App(Reusing, TRUE, FALSE),
   App(Resubmitting, TRUE, FALSE), App(Mixing, FALSE, FALSE),
   Keeping(App(Retiring, TRUE, FALSE)), App(Deep, FALSE, FALSE)}

\* an entry of a submitted array: a layer constructed for this call, or a layer
\* object of the live list submitted again
Fresh(spec) == [obj |-> Null, spec |-> spec]
Again(o) == [obj |-> o, spec |-> NoSpec]

Entries ==
  {Fresh(sp) : sp \in app.specs}
    \cup (IF app.reuse THEN {Again(o) : o \in Range(layers)} ELSE {})
    \cup (IF app.keeps THEN {Again(o) : o \in Range(prevLayers)} ELSE {})

EntryId(e) == IF e.obj = Null THEN e.spec.id ELSE objs[e.obj].id

\* the arrays an application may submit: no layer object twice
Arrays ==
  {arr \in UNION {[1..n -> Entries] : n \in 0..MaxLen} :
     \A i, j \in 1..Len(arr) :
        i # j => /\ arr[i].obj # Null => arr[i].obj # arr[j].obj
                 /\ app.dup \/ EntryId(arr[i]) # EntryId(arr[j])}

\* the application holds its arrays under these references; 0 is the array the
\* manager's constructor made
ArrayRefs == {1, 2}

----------------------------------------------------------------------------
(* LayerManager: the calls *)

\* what is kept of a call: how it ended, the error it raised, what log.warn
\* was given, the layer objects of the array of the last matching pass,
\* whether the call ran a matching pass, and for a setLayers call the reference
\* of the array it was given
Call(outcome, error, warns, top, pass) ==
  [outcome |-> outcome, error |-> error, warns |-> warns, top |-> top, pass |-> pass,
   ret |-> Falsy, ref |-> Null]

\* a call of a getter: ret is what it returned
Returned(outcome, ret) ==
  [Call(outcome, NoError, {}, call.top, FALSE) EXCEPT !.ret = ret]

\* the manager after its constructor, used by one of the applications apps
Constructed(apps) ==
  /\ objs = <<>>
  /\ sts = <<>>
  /\ aps = <<>>
  /\ lastRenderedLayers = 0
  /\ prevLayers = <<>>
  /\ layers = <<>>
  /\ mgrNeedsRedraw = {"Initial render"}
  /\ viewport = Null
  /\ layerFilter = Null
  /\ loads = {}
  /\ asyncLoads = {}
  /\ call = Call("none", NoError, {}, <<>>, FALSE)
  /\ app \in apps

Init == Constructed(Apps)

\* the layer objects of an array, those of its fresh entries constructed at
\* the end of heap
ObjectsOf(arr) ==
  LET fresh == SelectSeq(arr, LAMBDA e : e.obj = Null)
      \* how many fresh entries arr has up to its i-th
      k(i) == Len(SelectSeq(SubSeq(arr, 1, i), LAMBDA e : e.obj = Null))
  IN [heap |-> objs \o SeqOf([i \in 1..Len(fresh) |-> LayerObject(fresh[i].spec, 0)],
                             Len(fresh)),
      list |-> SeqOf([i \in 1..Len(arr) |->
                        IF arr[i].obj = Null THEN Len(objs) + k(i) ELSE arr[i].obj],
                     Len(arr))]

\* the world a pass starts in
World(heap) ==
  [objs |-> SeqOf([i \in 1..Len(heap) |->
                     [heap[i] EXCEPT !.ran = "none", !.initCalls = 0, !.updCalls = 0,
                                     !.seen = <<>>,
                                     !.trail = <<heap[i].lifecycle>>]],
                  Len(heap)),
   sts |-> sts, loads |-> loads, redraw |-> mgrNeedsRedraw, warns |-> {},
   map |-> [id \in AllIds |-> Missing], keys |-> <<>>, gen |-> <<>>]

\* the live list a pass leaves: _updateLayers' generatedLayers, or the old list
\* when _updateLayers threw before setLayers assigned it
LayersAfter(u) == IF Threw(u) THEN layers ELSE u.w.gen

\* setLayers without its assertion
ViewportSet_Unchecked == TRUE

\* assert(this.context.viewport)
ViewportSet == viewport # Null

\* setLayers without its early return
SameArray_Never(ref) == FALSE

\* newLayers === this.lastRenderedLayers
SameArray(ref) == ref = lastRenderedLayers

\* a setLayers that remembers the array only when matching raised no error
Remembered_OnSuccess(ref, u) ==
  IF Threw(u) \/ u.error # NoError THEN lastRenderedLayers ELSE ref

\* this.lastRenderedLayers = newLayers, assigned before matching starts: u is
\* what matching ends with
Remembered(ref, u) == ref

\* LayerManager.setLayers(newLayers), newLayers being the array held under ref
SetLayers(ref, arr) ==
  IF ~ViewportSet
  THEN /\ call' = [Call("threw", Err("AssertionError", "viewport not set"), {}, call.top,
                        FALSE) EXCEPT !.ref = ref]
       /\ UNCHANGED <<objs, sts, aps, lastRenderedLayers, prevLayers, layers,
                      mgrNeedsRedraw, viewport, layerFilter, loads, asyncLoads, app>>
  ELSE IF SameArray(ref)
  THEN /\ call' = [Call("returned", NoError, {}, call.top, FALSE) EXCEPT !.ref = ref]
       /\ UNCHANGED <<objs, sts, aps, lastRenderedLayers, prevLayers, layers,
                      mgrNeedsRedraw, viewport, layerFilter, loads, asyncLoads, app>>
  ELSE
    \E made \in {ObjectsOf(arr)} :
    \E u \in {_updateLayers(World(made.heap), layers, made.list)} :
    \E c \in {Compact(u.w, layers \o LayersAfter(u) \o made.list)} :
      LET O(seq) == SeqOf([i \in 1..Len(seq) |-> c.O[seq[i]]], Len(seq))
      IN /\ Cardinality(u.w.loads) <= MaxLoads
         /\ objs' = c.objs
         /\ sts' = c.sts
         /\ loads' = c.loads
         /\ lastRenderedLayers' = Remembered(ref, u)
         /\ prevLayers' = O(layers)
         /\ layers' = O(LayersAfter(u))
         /\ mgrNeedsRedraw' = u.w.redraw
         /\ call' = [Call(IF Threw(u) \/ u.error # NoError THEN "threw" ELSE "returned",
                          IF Threw(u) THEN u.exc ELSE u.error,
                          u.w.warns, O(made.list), TRUE) EXCEPT !.ref = ref]
         /\ UNCHANGED <<aps, viewport, layerFilter, asyncLoads, app>>

\* LayerManager.setParameters({viewport})
SetViewport(v) ==
  /\ viewport' = v
  /\ UNCHANGED <<objs, sts, aps, lastRenderedLayers, prevLayers, layers, layerFilter,
                 mgrNeedsRedraw, loads, asyncLoads, call, app>>

\* the fetch LayerObject._loadData started resolves: its then-callback runs
LoadResolves(l) ==
  LET s == objs[l.layer].st
  IN /\ l \in loads
     /\ loads' = loads \ {l}
     /\ sts' = [sts EXCEPT ![s] = [sts[s] EXCEPT
                  !.data = Fetched(l.url),
                  !.changeFlags = setChangeFlags(sts[s].changeFlags,
                                                 Flags(True, Falsy, Falsy, Falsy)),
                  !.hasFlags = TRUE]]
     /\ UNCHANGED <<objs, aps, lastRenderedLayers, prevLayers, layers,
                    mgrNeedsRedraw, viewport, layerFilter, asyncLoads, call, app>>

\* the fetch fails: the promise is rejected and no callback runs
LoadFails(l) ==
  /\ l \in loads
  /\ loads' = loads \ {l}
  /\ UNCHANGED <<objs, sts, aps, lastRenderedLayers, prevLayers, layers,
                 mgrNeedsRedraw, viewport, layerFilter, asyncLoads, call, app>>

----------------------------------------------------------------------------
(* LayerManager: redraw flags *)

\* LayerObject._getNeedsRedraw(clearRedrawFlags) of layer o on the
\* InternalState heap heap: ret is what it returns
_getNeedsRedraw(heap, o, clearRedrawFlags) ==
  IF o.st = Null THEN [sts |-> heap, ret |-> Falsy]
  ELSE [sts |-> [heap EXCEPT ![o.st].needsRedraw =
                   IF Truthy(heap[o.st].needsRedraw) /\ clearRedrawFlags
                   THEN Falsy ELSE heap[o.st].needsRedraw],
        ret |-> IF Truthy(heap[o.st].needsRedraw) THEN {o.id} ELSE heap[o.st].needsRedraw]

\* a loop that asks a layer only while the result is still falsy
AsksLayer_WhileFalsy(redraw) == ~Truthy(redraw)

\* the for loop of _checkIfNeedsRedraw calls every layer, whatever redraw is
AsksLayer(redraw) == TRUE

\* LayerManager._checkIfNeedsRedraw, from the i-th live layer on
RECURSIVE _checkIfNeedsRedraw(_, _, _, _)
_checkIfNeedsRedraw(heap, i, redraw, clearRedrawFlags) ==
  IF i > Len(layers) THEN [sts |-> heap, ret |-> redraw]
  ELSE IF ~AsksLayer(redraw)
  THEN _checkIfNeedsRedraw(heap, i + 1, redraw, clearRedrawFlags)
  ELSE With(_getNeedsRedraw(heap, objs[layers[i]], clearRedrawFlags), LAMBDA r :
         _checkIfNeedsRedraw(r.sts, i + 1, Or(redraw, r.ret), clearRedrawFlags))

\* LayerManager.needsRedraw({clearRedrawFlags})
NeedsRedraw(clearRedrawFlags) ==
  /\ \E r \in {_checkIfNeedsRedraw(sts, 1, mgrNeedsRedraw, clearRedrawFlags)} :
       /\ sts' = r.sts
       /\ call' = Returned(IF clearRedrawFlags THEN "needsRedraw" ELSE "peeked", r.ret)
  /\ mgrNeedsRedraw' = IF clearRedrawFlags THEN Falsy ELSE mgrNeedsRedraw
  /\ UNCHANGED <<objs, aps, lastRenderedLayers, prevLayers, layers, viewport, layerFilter, loads,
                 asyncLoads, app>>

\* LayerObject.setNeedsRedraw() on the i-th live layer (directly or through
\* setState)
SetNeedsRedraw(i) ==
  /\ i \in 1..Len(layers)
  /\ objs[layers[i]].st # Null
  /\ sts' = [sts EXCEPT ![objs[layers[i]].st].needsRedraw = True]
  /\ call' = Returned("flagged", Falsy)
  /\ UNCHANGED <<objs, aps, lastRenderedLayers, prevLayers, layers, mgrNeedsRedraw,
                 viewport, layerFilter, loads, asyncLoads, app>>

\* LayerManager.setNeedsRedraw(reason)
ManagerSetNeedsRedraw ==
  /\ mgrNeedsRedraw' = Or(mgrNeedsRedraw, {"reason"})
  /\ call' = Returned("flagged", Falsy)
  /\ UNCHANGED <<objs, sts, aps, lastRenderedLayers, prevLayers, layers, viewport, layerFilter, loads,
                 asyncLoads, app>>

\* the layer filters an application passes: null or one of two functions
LayerFilters == {Null, 1, 2}

\* setParameters' test this.context.layerFilter !== parameters.layerFilter;
\* assigned is context.layerFilter as it is when the test is made
FilterDiffers(assigned, given) == assigned # given

\* LayerManager.setParameters({layerFilter}): the filter is assigned to the
\* context, then compared, then assigned again by Object.assign
SetLayerFilter(f) ==
  /\ \E assigned \in {f} :
       /\ mgrNeedsRedraw' = IF FilterDiffers(assigned, f)
                            THEN Or(mgrNeedsRedraw, {"layerFilter changed"})
                            ELSE mgrNeedsRedraw
       /\ layerFilter' = assigned
  /\ call' = Returned("parameters", Falsy)
  /\ UNCHANGED <<objs, sts, aps, lastRenderedLayers, prevLayers, layers, viewport, loads,
                 asyncLoads, app>>

----------------------------------------------------------------------------
(* LayerManager: getLayers *)

\* the characters of an id
Chars ==
  [id \in AllIds |->
     CASE id = "a" -> <<"a">>
       [] id = "b" -> <<"b">>
       [] id = "ab" -> <<"a", "b">>
       [] id = "a-s" -> <<"a", "-", "s">>
       [] id = "a-t" -> <<"a", "-", "t">>]

\* id.indexOf(layerId) === 0
StartsWith(id, layerId) ==
  /\ Len(Chars[layerId]) <= Len(Chars[id])
  /\ SubSeq(Chars[id], 1, Len(Chars[layerId])) = Chars[layerId]

\* the layerIds option of getLayers: null, or an array of ids
NoLayerIds == [given |-> FALSE, ids |-> <<>>]
LayerIds(ids) == [given |-> TRUE, ids |-> ids]
Filters ==
  {NoLayerIds} \cup {LayerIds(<<id>>) : id \in AllIds} \cup {LayerIds(<<"a-s", "b">>)}

\* LayerManager.getLayers({layerIds}): ret is the list it returns
getLayers(layerIds) ==
  IF layerIds.given
  THEN SelectSeq(layers, LAMBDA layer :
         \E k \in 1..Len(layerIds.ids) : StartsWith(objs[layer].id, layerIds.ids[k]))
  ELSE layers

\* the array returned is a truthy value that holds the list
GetLayers(layerIds) ==
  /\ call' = Returned("getLayers", {getLayers(layerIds)})
  /\ UNCHANGED <<objs, sts, aps, lastRenderedLayers, prevLayers, layers, mgrNeedsRedraw,
                 viewport, layerFilter, loads, asyncLoads, app>>

----------------------------------------------------------------------------
(* LayerState: asynchronous properties.  One InternalState (sts[1]) of one   *)
(* layer (objs[1]) is followed; its data prop is the only async prop.          *)

NoUrl == "null"

\* the record _getAsyncProp creates; loadPromise is the count of the load the
\* promise belongs to, or Null
AsyncProp ==
  [lastValue |-> NoUrl, loadValue |-> NullData, loadPromise |-> Null,
   loadCount |-> 0, value |-> EMPTY_ARRAY]

\* an inline (non-string) value of the data prop
InlineValue(d) == <<"inline", d>>

\* LayerState.getAsyncProp('data', props) on the state st with the asyncProp
\* heap heap
getAsyncProp(st, heap, props) ==
  IF st.asyncValues # Null THEN heap[st.asyncValues].value ELSE InlineValue(props.data)

\* a completion handler without the test
IsLastLoad_Always(count, asyncProp) == TRUE

\* the completion handler's test: is this load the last one started
IsLastLoad(count, asyncProp) == count = asyncProp.loadCount

\* a setAsyncProp that takes every string for a new one
SameReference_Never(value, asyncProp) == FALSE

\* setAsyncProp's test: is the string the one observed last
SameReference(value, asyncProp) == value = asyncProp.lastValue

\* asyncProp records no longer in asyncValues and without a fetch in flight
\* are dropped and the rest renumbered
CompactAsync(heap, cur, fetches) ==
  With(AddAll(AddAll(<<>>, <<cur>>, 1), SortedSeq({l.ap : l \in fetches}), 1), LAMBDA keep :
    [aps |-> SeqOf([i \in 1..Len(keep) |-> heap[keep[i]]], Len(keep)),
     cur |-> IndexIn(keep, cur),
     asyncLoads |-> {[l EXCEPT !.ap = IndexIn(keep, l.ap)] : l \in fetches}])

\* the layer gets props whose data is value: LayerState.updateAsyncProps(props),
\* that is setAsyncProp('data', value, props) with _getAsyncProp and
\* _loadAsyncProp
SetAsyncProp(value) ==
  /\ objs' = [objs EXCEPT ![1] = [objs[1] EXCEPT !.props = Props(value, <<>>)]]
  /\ IF IsString(value)
     THEN \E heap \in {IF sts[1].asyncValues = Null THEN Append(aps, AsyncProp) ELSE aps} :
          \E cur \in {IF sts[1].asyncValues = Null THEN Len(heap) ELSE sts[1].asyncValues} :
            IF SameReference(value, heap[cur])
            THEN /\ aps' = heap
                 /\ sts' = [sts EXCEPT ![1] = [sts[1] EXCEPT !.asyncValues = cur]]
                 /\ UNCHANGED asyncLoads
            ELSE /\ heap[cur].loadCount < MaxLoadCount
                 /\ Cardinality(asyncLoads) < MaxLoads
                 /\ aps' = [heap EXCEPT ![cur] =
                              [heap[cur] EXCEPT !.lastValue = value,
                                                !.loadCount = heap[cur].loadCount + 1,
                                                !.loadPromise = heap[cur].loadCount + 1]]
                 /\ sts' = [sts EXCEPT ![1] = [sts[1] EXCEPT !.asyncValues = cur]]
                 /\ asyncLoads' = asyncLoads \cup
                      {[ap |-> cur, count |-> heap[cur].loadCount + 1, url |-> value]}
     ELSE \E c \in {CompactAsync(aps, Null, asyncLoads)} :
            /\ aps' = c.aps
            /\ asyncLoads' = c.asyncLoads
            /\ sts' = [sts EXCEPT ![1] = [sts[1] EXCEPT !.asyncValues = Null]]
  /\ call' = Call("set", NoError, {}, call.top, FALSE)
  /\ UNCHANGED <<lastRenderedLayers, prevLayers, layers, mgrNeedsRedraw, viewport, layerFilter,
                 loads, app>>

\* the fetch of _loadAsyncProp resolves and its last then-callback runs;
\* this.layer.setChangeFlags reaches the changeFlags of the layer's InternalState
AsyncResolves(l) ==
  /\ l \in asyncLoads
  /\ \E c \in {CompactAsync(
                   IF IsLastLoad(l.count, aps[l.ap])
                   THEN [aps EXCEPT ![l.ap] = [aps[l.ap] EXCEPT
                                                 !.loadValue = Fetched(l.url),
                                                 !.loadPromise = Null,
                                                 !.value = Fetched(l.url)]]
                   ELSE aps,
                   sts[1].asyncValues, asyncLoads \ {l})} :
       /\ aps' = c.aps
       /\ asyncLoads' = c.asyncLoads
       /\ sts' = [sts EXCEPT ![1] =
                    IF IsLastLoad(l.count, aps[l.ap])
                    THEN [sts[1] EXCEPT
                            !.asyncValues = c.cur,
                            !.changeFlags = setChangeFlags(sts[1].changeFlags,
                                                           Flags(True, Falsy, Falsy, Falsy)),
                            !.hasFlags = TRUE]
                    ELSE [sts[1] EXCEPT !.asyncValues = c.cur]]
  /\ call' = Call(IF IsLastLoad(l.count, aps[l.ap]) THEN "installed" ELSE "discarded",
                  NoError, {}, call.top, FALSE)
  /\ UNCHANGED <<objs, lastRenderedLayers, prevLayers, layers, mgrNeedsRedraw, viewport, layerFilter,
                 loads, app>>

\* a rejection that is handled like a completion without data
onRejected_Flags(st) ==
  [st EXCEPT !.changeFlags = setChangeFlags(st.changeFlags, Flags(True, Falsy, Falsy, Falsy))]

\* what a rejection of the promise does to the InternalState: the promise
\* chain has no rejection handler
onRejected(st) == st

\* the fetch fails: the promise is rejected and no callback runs
AsyncFails(l) ==
  /\ l \in asyncLoads
  /\ \E c \in {CompactAsync(aps, sts[1].asyncValues, asyncLoads \ {l})} :
       /\ aps' = c.aps
       /\ asyncLoads' = c.asyncLoads
       /\ sts' = [sts EXCEPT ![1] = onRejected([sts[1] EXCEPT !.asyncValues = c.cur])]
  /\ call' = Call("rejected", NoError, {}, call.top, FALSE)
  /\ UNCHANGED <<objs, lastRenderedLayers, prevLayers, layers, mgrNeedsRedraw, viewport, layerFilter,
                 loads, app>>

\* the layer's update ends: LayerObject.clearChangeFlags
ClearChangeFlags ==
  /\ sts' = [sts EXCEPT ![1] = [sts[1] EXCEPT !.changeFlags = clearChangeFlags,
                                               !.hasFlags = TRUE]]
  /\ call' = Call("cleared", NoError, {}, call.top, FALSE)
  /\ UNCHANGED <<objs, aps, lastRenderedLayers, prevLayers, layers, mgrNeedsRedraw,
                 viewport, layerFilter, loads, asyncLoads, app>>

\* an initialized layer with inline data and its InternalState
InitAsync ==
  /\ objs = <<[LayerObject(Leaf("a", "ok", "d1"), 0) EXCEPT
                 !.lifecycle = INITIALIZED, !.st = 1]>>
  /\ sts = <<[LayerState EXCEPT !.layer = <<"a">>, !.hasFlags = TRUE]>>
  /\ aps = <<>>
  /\ lastRenderedLayers = 1
  /\ prevLayers = <<>>
  /\ layers = <<1>>
  /\ mgrNeedsRedraw = {"Initial render"}
  /\ viewport = 1
  /\ layerFilter = Null
  /\ loads = {}
  /\ asyncLoads = {}
  /\ call = Call("none", NoError, {}, <<>>, FALSE)
  /\ app = App({}, FALSE, FALSE)

NextAsync ==
  \/ \E value \in Urls \cup Inline : SetAsyncProp(value)
  \/ \E l \in asyncLoads : AsyncResolves(l)
  \/ \E l \in asyncLoads : AsyncFails(l)
  \/ ClearChangeFlags

SpecAsync == InitAsync /\ [][NextAsync]_vars

----------------------------------------------------------------------------
(* LayerObject: change flags.  The layer objs[1] is followed. *)

\* the values callers pass as flags: false or undefined, true or a string
\* stating the reason, and for updateTriggersChanged an object with the
\* triggers that changed
FlagValues == {Falsy, True, {"reason"}}
TriggerValues == {Falsy, {"getColor"}, {"getSize"}}

\* layer.setChangeFlags(flags)
SetChangeFlags(flags) ==
  /\ sts' = [sts EXCEPT ![1] = [sts[1] EXCEPT
                                  !.changeFlags = setChangeFlags(sts[1].changeFlags, flags),
                                  !.hasFlags = TRUE]]
  /\ call' = Call("flagged", NoError, {}, call.top, FALSE)
  /\ UNCHANGED <<objs, aps, lastRenderedLayers, prevLayers, layers, mgrNeedsRedraw,
                 viewport, layerFilter, loads, asyncLoads, app>>

\* a layer whose InternalState has no changeFlags yet
InitFlags ==
  /\ objs = <<[LayerObject(Leaf("a", "ok", "d1"), 0) EXCEPT !.st = 1]>>
  /\ sts = <<[LayerState EXCEPT !.layer = <<"a">>]>>
  /\ aps = <<>>
  /\ lastRenderedLayers = 1
  /\ prevLayers = <<>>
  /\ layers = <<1>>
  /\ mgrNeedsRedraw = {"Initial render"}
  /\ viewport = 1
  /\ layerFilter = Null
  /\ loads = {}
  /\ asyncLoads = {}
  /\ call = Call("none", NoError, {}, <<>>, FALSE)
  /\ app = App({}, FALSE, FALSE)

NextFlags ==
  \/ \E d, p, v \in FlagValues, t \in TriggerValues : SetChangeFlags(Flags(d, p, t, v))
  \/ ClearChangeFlags

SpecFlags == InitFlags /\ [][NextFlags]_vars

Next ==
  \/ \E ref \in ArrayRefs, arr \in Arrays : SetLayers(ref, arr)
  \/ \E v \in {Null, 1} : SetViewport(v)
  \/ \E l \in loads : LoadResolves(l)
  \/ \E l \in loads : LoadFails(l)

Spec == Init /\ [][Next]_vars

\* the manager with its redraw calls, for the applications whose layers are
\* finalized, throw or are generated by composites
AppsRedraw ==
  {App(Throwing, FALSE, FALSE), App(Finalizing, FALSE, FALSE), App(Nesting, FALSE, FALSE)}

InitRedraw == Constructed(AppsRedraw)

NextRedraw ==
  \/ \E ref \in ArrayRefs, arr \in Arrays : SetLayers(ref, arr)
  \/ SetViewport(1)
  \/ \E clearRedrawFlags \in BOOLEAN : NeedsRedraw(clearRedrawFlags)
  \/ \E i \in 1..MaxLen : SetNeedsRedraw(i)
  \/ ManagerSetNeedsRedraw

SpecRedraw == InitRedraw /\ [][NextRedraw]_vars

\* the manager with its getLayers call, for applications with composite
\* layers and with ids that begin alike
AppsGetLayers == {App(Nesting, FALSE, FALSE), App(Prefixed, FALSE, FALSE)}

InitGetLayers == Constructed(AppsGetLayers)

NextGetLayers ==
  \/ \E ref \in ArrayRefs, arr \in Arrays : SetLayers(ref, arr)
  \/ SetViewport(1)
  \/ \E layerIds \in Filters : GetLayers(layerIds)

SpecGetLayers == InitGetLayers /\ [][NextGetLayers]_vars

\* the manager with its layer filter and its needsRedraw call
InitFilter == Constructed({App(Prefixed, FALSE, FALSE)})

NextFilter ==
  \/ \E ref \in ArrayRefs, arr \in Arrays : SetLayers(ref, arr)
  \/ SetViewport(1)
  \/ \E f \in LayerFilters : SetLayerFilter(f)
  \/ NeedsRedraw(TRUE)

SpecFilter == InitFilter /\ [][NextFilter]_vars

\* the manager for an application whose layer changes between a url and
\* inline data
Reloading == {Leaf("a", "ok", "u1"), Leaf("a", "ok", "d1")}

InitReload == Constructed({App(Reloading, FALSE, FALSE)})

SpecReload == InitReload /\ [][Next]_vars

----------------------------------------------------------------------------
(* Properties *)

\* a step in which setLayers ran a matching pass: only such a step changes
\* lastRenderedLayers
PassStep == lastRenderedLayers' # lastRenderedLayers

IdsOf(heap, list) == {heap[list[i]].id : i \in 1..Len(list)}
DistinctIds(heap, list) == Cardinality(IdsOf(heap, list)) = Len(list)

PreconditionError == Err("AssertionError", "viewport not set")

\* C1: a setLayers call made while context.viewport is not set fails with the
\* precondition error and leaves the live list, the remembered last array, the
\* previous list and every layer object and InternalState as they were.
C1_PreconditionFailure ==
  [][(viewport = Null /\ \E ref \in ArrayRefs, arr \in Arrays : SetLayers(ref, arr))
       => /\ call'.outcome = "threw"
          /\ call'.error = PreconditionError
          /\ UNCHANGED <<objs, sts, layers, prevLayers, lastRenderedLayers,
                         mgrNeedsRedraw, loads>>]_vars

\* a setLayers call failed on the precondition while layers were live
C1_Witness ==
  /\ call.outcome = "threw"
  /\ call.error = PreconditionError
  /\ layers # <<>>
  /\ \E i \in 1..Len(layers) : objs[layers[i]].lifecycle \in {INITIALIZED, MATCHED}

\* C2: a setLayers call with the array that was submitted last is a no-op: no
\* pass runs, and the live list, every layer object (lifecycle, hook calls),
\* every InternalState (change flags, redraw flag), the manager's redraw reason
\* and the fetches in flight are unchanged.
C2_SameReferenceNoOp ==
  [][(viewport # Null /\ lastRenderedLayers \in ArrayRefs
        /\ \E arr \in Arrays : SetLayers(lastRenderedLayers, arr))
       => /\ call'.outcome = "returned"
          /\ ~call'.pass
          /\ UNCHANGED <<objs, sts, layers, prevLayers, lastRenderedLayers,
                         mgrNeedsRedraw, loads>>]_vars

\* a setLayers call was ignored while layers were live and the manager had a
\* redraw reason
C2_Witness ==
  /\ call.outcome = "returned"
  /\ ~call.pass
  /\ layers # <<>>
  /\ Truthy(mgrNeedsRedraw)

\* after a pass: the instances of the old live list with the id of o
Predecessors(o) ==
  {prevLayers'[i] : i \in {j \in 1..Len(prevLayers') : objs'[prevLayers'[j]].id = objs'[o].id}}

\* after a pass: the first instance of the old live list with the id of o, the
\* one the oldLayerMap held
Predecessor(o) ==
  prevLayers'[CHOOSE i \in 1..Len(prevLayers') :
                /\ objs'[prevLayers'[i]].id = objs'[o].id
                /\ \A j \in 1..(i - 1) : objs'[prevLayers'[j]].id # objs'[o].id]

\* the descriptor lists of the last pass and of this one hold the same distinct ids
SameDistinctIds ==
  /\ DistinctIds(objs, call.top)
  /\ DistinctIds(objs', call'.top)
  /\ IdsOf(objs, call.top) = IdsOf(objs', call'.top)

\* C3 as claimed: when two consecutive passes get the same distinct ids, every
\* instance of the second pass ends MATCHED without an initializeState call in
\* that pass, and every old live instance of its id ends AWAITING_GC.
C3_Claimed ==
  [][(PassStep /\ SameDistinctIds)
       => \A i \in 1..Len(call'.top) :
            /\ objs'[call'.top[i]].lifecycle = MATCHED
            /\ objs'[call'.top[i]].initCalls = 0
            /\ \A p \in Predecessors(call'.top[i]) : objs'[p].lifecycle = AWAITING_GC]_vars

\* C3: when two consecutive passes get the same distinct ids, in any order,
\* every instance of the second pass that has a predecessor of its id in the
\* live list ends MATCHED without an initializeState call in that pass; the
\* predecessor ends AWAITING_GC, unless it is the very layer object submitted
\* again, which ends MATCHED.
C3_IdentityStability ==
  [][(PassStep /\ SameDistinctIds)
       => \A i \in 1..Len(call'.top) :
            Predecessors(call'.top[i]) # {}
              => /\ objs'[call'.top[i]].lifecycle = MATCHED
                 /\ objs'[call'.top[i]].initCalls = 0
                 /\ \A p \in Predecessors(call'.top[i]) :
                      objs'[p].lifecycle =
                        IF p = call'.top[i] THEN MATCHED ELSE AWAITING_GC]_vars

\* two layers were live as a, b and the next pass got new descriptors b, a:
\* both are matched and both predecessors await collection
C3_Witness ==
  /\ call.pass
  /\ Len(call.top) = 2 /\ Len(prevLayers) = 2 /\ Len(layers) = 2
  /\ objs[call.top[1]].id = objs[prevLayers[2]].id
  /\ objs[call.top[2]].id = objs[prevLayers[1]].id
  /\ objs[call.top[1]].id # objs[call.top[2]].id
  /\ \A i \in 1..2 : /\ objs[call.top[i]].lifecycle = MATCHED
                      /\ objs[prevLayers[i]].lifecycle = AWAITING_GC
                      /\ objs[call.top[i]].st = objs[prevLayers[3 - i]].st

AllFlagsFalse(cf) == \A f \in DOMAIN cf : ~Truthy(cf[f])

\* C4 as claimed, for a list of distinct ids: a descriptor without predecessor
\* goes NO_STATE -> INITIALIZED, its updateState is called once and sees
\* dataChanged, propsChanged, viewportChanged, propsOrDataChanged and
\* somethingChanged set, and its flags are all false after the pass; one with a
\* predecessor ends MATCHED and its updateState sees no flag that the diff of
\* its props against the predecessor's does not give.
C4_Claimed ==
  [][(PassStep /\ DistinctIds(objs', call'.top))
       => \A i \in 1..Len(call'.top) :
            IF Predecessors(call'.top[i]) = {}
            THEN /\ objs'[call'.top[i]].trail = <<NO_STATE, INITIALIZED>>
                 /\ objs'[call'.top[i]].updCalls = 1
                 /\ \A f \in {"dataChanged", "propsChanged", "viewportChanged",
                               "propsOrDataChanged", "somethingChanged"} :
                      Truthy(objs'[call'.top[i]].seen[1][f])
                 /\ AllFlagsFalse(sts'[objs'[call'.top[i]].st].changeFlags)
            ELSE /\ objs'[call'.top[i]].lifecycle = MATCHED
                 /\ objs'[call'.top[i]].updCalls > 0
                      => \A f \in {"dataChanged", "propsChanged", "updateTriggersChanged",
                                    "viewportChanged"} :
                           Truthy(objs'[call'.top[i]].seen[1][f])
                             => Truthy(diffPropsOf(objs'[call'.top[i]].props,
                                                   objs'[Predecessor(call'.top[i])].props)[f])]_vars

\* after a pass: the ids of the descriptors it visited, top-level and generated
VisitedIds ==
  IdsOf(objs', call'.top) \cup IdsOf(objs', layers')
    \cup UNION {IdsOf(objs', sts'[objs'[layers'[i]].st].subLayers) : i \in 1..Len(layers')}

Unmatched == {prevLayers'[i] : i \in {j \in 1..Len(prevLayers') :
                                        objs'[prevLayers'[j]].id \notin VisitedIds}}

\* C5 as claimed, for a pass in which no finalizeState threw: each instance
\* of the old live list whose id no new descriptor has goes through
\* AWAITING_FINALIZATION to FINALIZED, and its finalizeState has been called
\* exactly once.
C5_Claimed ==
  [][(PassStep /\ \A w \in call'.warns : w[1] # "error during finalization")
       => \A p \in Unmatched :
            /\ Len(objs'[p].trail) >= 3
            /\ SubSeq(objs'[p].trail, Len(objs'[p].trail) - 1, Len(objs'[p].trail))
                 = <<AWAITING_FINALIZATION, FINALIZED>>
            /\ objs'[p].finCalls = 1]_vars

\* C6: when a hook of one top-level layer throws during its initialize or
\* update in a pass, the walk still reaches every other layer of the list,
\* before and after it: each has its _initialize or _update run (unless its
\* own matching failed), one without predecessor that ran through is
\* INITIALIZED and one with a predecessor is MATCHED.
C6_FailureIsolation ==
  [][(PassStep /\ \E i \in 1..Len(call'.top) : objs'[call'.top[i]].ran = "threw")
       => \A i \in 1..Len(call'.top) :
            /\ \/ objs'[call'.top[i]].ran # "none"
               \/ <<"error during matching", objs'[call'.top[i]].id>> \in call'.warns
            /\ (objs'[call'.top[i]].ran = "ok" /\ Predecessors(call'.top[i]) = {})
                 => /\ objs'[call'.top[i]].lifecycle = INITIALIZED
                    /\ objs'[call'.top[i]].updCalls = 1
            /\ (objs'[call'.top[i]].ran # "none" /\ Predecessors(call'.top[i]) # {}
                  /\ DistinctIds(objs', call'.top))
                 => objs'[call'.top[i]].lifecycle = MATCHED]_vars

\* the first layer of a list threw in its hook and the second one was
\* initialized or updated in the same pass
C6_Witness ==
  /\ call.pass
  /\ Len(call.top) = 2
  /\ objs[call.top[1]].ran = "threw"
  /\ objs[call.top[2]].ran = "ok"
  /\ objs[call.top[2]].lifecycle \in {INITIALIZED, MATCHED}
  /\ call.top[2] \in Range(layers)

\* C7 as claimed: a pass in which the initializeState or updateState hook of a
\* top-level layer threw ends with setLayers raising an error.
C7_Claimed ==
  [][(PassStep /\ \E i \in 1..Len(call'.top) : objs'[call'.top[i]].ran = "threw")
       => /\ call'.outcome = "threw"
          /\ call'.error # NoError]_vars

\* C8 as claimed, for an old live list of distinct ids: when finalizeState
\* threw for an unmatched predecessor, all unmatched predecessors are
\* FINALIZED after the pass.
C8_Claimed ==
  [][(PassStep /\ DistinctIds(objs', prevLayers')
        /\ \E p \in Unmatched : <<"error during finalization", objs'[p].id>> \in call'.warns)
       => \A p \in Unmatched : objs'[p].lifecycle = FINALIZED]_vars

\* C9 as claimed: after a pass whose list has two descriptors of one id, the
\* live list has exactly one instance of that id and the duplicate-id warning
\* was logged.
C9_Claimed ==
  [][PassStep
       => \A i, j \in 1..Len(call'.top) :
            (i < j /\ objs'[call'.top[i]].id = objs'[call'.top[j]].id)
              => /\ Cardinality({k \in 1..Len(layers') :
                                  objs'[layers'[k]].id = objs'[call'.top[i]].id}) = 1
                 /\ <<"Multiple new layers with same id", objs'[call'.top[i]].id>>
                      \in call'.warns]_vars

\* what getAsyncProp('data', props) returns for the layer followed
Displayed == getAsyncProp(sts[1], aps, objs[1].props)

\* C10: when loads were started for u1 and then for u2 on one property, the
\* completion of u1's load never changes what getAsyncProp returns, whether it
\* comes before or after u2's; starting a load leaves the returned value as it
\* was, and the completion of the last load started makes it that load's
\* result.
C10_Supersession ==
  [][/\ \A l \in asyncLoads :
          AsyncResolves(l)
            => IF l.ap = sts[1].asyncValues /\ l.count = aps[l.ap].loadCount
               THEN Displayed' = Fetched(l.url)
               ELSE Displayed' = Displayed
     /\ \A value \in Urls :
          (sts[1].asyncValues # Null /\ SetAsyncProp(value)) => Displayed' = Displayed]_vars

\* loads for u1 and then u2 were started on one property, u2's completed and
\* then u1's: u1's result was discarded and u2's is returned
C10_Witness ==
  /\ call.outcome = "discarded"
  /\ asyncLoads = {}
  /\ sts[1].asyncValues # Null
  /\ aps[sts[1].asyncValues].lastValue = "u2"
  /\ aps[sts[1].asyncValues].loadCount = 2
  /\ Displayed = Fetched("u2")

\* some live layer's redraw flag is set
SomeLayerFlag(heap) ==
  \E i \in 1..Len(layers) :
    objs[layers[i]].st # Null /\ Truthy(heap[objs[layers[i]].st].needsRedraw)

\* C11: a needsRedraw call with clearRedrawFlags true returns truthy when the
\* manager's redraw reason or the redraw flag of a live layer is set; it
\* leaves the manager's reason and the flag of every live layer cleared; and
\* such a call that directly follows another one returns false.
C11_RedrawOnce ==
  [][NeedsRedraw(TRUE)
       => /\ (Truthy(mgrNeedsRedraw) \/ SomeLayerFlag(sts)) => Truthy(call'.ret)
          /\ ~Truthy(mgrNeedsRedraw')
          /\ ~SomeLayerFlag(sts')
          /\ call.outcome = "needsRedraw" => call'.ret = Falsy]_vars

\* a needsRedraw call found the manager's reason set and the flags of two
\* live layers, returned truthy and cleared them all
C11_Witness ==
  /\ call.outcome = "needsRedraw"
  /\ Truthy(call.ret)
  /\ Len(layers) >= 2
  /\ ~SomeLayerFlag(sts)
  /\ ~Truthy(mgrNeedsRedraw)

\* the separator between a composite layer's id and its sub-layer's suffix
Separator == "-"

\* id is layerId, or begins with layerId followed by the separator
SelectedBy(id, layerId) ==
  \/ id = layerId
  \/ /\ StartsWith(id, layerId)
     /\ Len(Chars[id]) > Len(Chars[layerId])
     /\ Chars[id][Len(Chars[layerId]) + 1] = Separator

\* C12 as claimed: getLayers with a layerIds filter returns exactly the live
\* layers whose id is a filter string or begins with one followed by a
\* separator, and without a filter the whole live list.
C12_Claimed ==
  [][\A layerIds \in Filters :
       GetLayers(layerIds)
         => call'.ret =
              {IF layerIds.given
               THEN SelectSeq(layers, LAMBDA layer :
                      \E k \in 1..Len(layerIds.ids) :
                        SelectedBy(objs[layer].id, layerIds.ids[k]))
               ELSE layers}]_vars

\* C13 as claimed: after a pass, every descriptor of the submitted list is in
\* the live list, whatever the outcome of its initialize, state transfer or
\* update, also when setLayers raised the recorded error.
C13_Claimed ==
  [][PassStep => \A i \in 1..Len(call'.top) : call'.top[i] \in Range(layers')]_vars

\* C14 as claimed: after a pass, a generated sub-layer whose id was live
\* before the pass is MATCHED and has its predecessor's InternalState, and a
\* sub-layer of the old live list whose id the pass did not visit is FINALIZED.
C14_Claimed ==
  [][PassStep
       => /\ \A i \in 1..Len(layers') :
               (objs'[layers'[i]].depth > 0 /\ Predecessors(layers'[i]) # {})
                 => /\ objs'[layers'[i]].lifecycle = MATCHED
                    /\ objs'[layers'[i]].st = objs'[Predecessor(layers'[i])].st
          /\ \A p \in Unmatched :
               objs'[p].depth > 0 => objs'[p].lifecycle = FINALIZED]_vars

\* C15 as claimed: after a pass every live instance has an InternalState, no
\* two live instances share one, and no two live instances of one id have
\* different ones.
C15_Claimed ==
  [][PassStep
       => /\ \A i \in 1..Len(layers') : objs'[layers'[i]].st # Null
          /\ \A i, j \in 1..Len(layers') :
               i # j => /\ objs'[layers'[i]].st # objs'[layers'[j]].st
                        /\ objs'[layers'[i]].id = objs'[layers'[j]].id
                             => objs'[layers'[i]].st = objs'[layers'[j]].st]_vars

\* C16 as claimed: a layer object that was FINALIZED when a pass began is
\* FINALIZED throughout it, no finalizeState hook is ever called twice on one
\* object, and a pass that has a FINALIZED object among its unmatched old
\* layers fails on the assertion.
C16_Claimed ==
  [][PassStep
       => /\ \A o \in 1..Len(objs') :
               /\ (objs'[o].trail # <<>> /\ objs'[o].trail[1] = FINALIZED)
                    => objs'[o].trail = <<FINALIZED>>
               /\ objs'[o].finCalls <= 1
          /\ (\E p \in Unmatched : objs'[p].trail[1] = FINALIZED)
               => /\ call'.outcome = "threw"
                  /\ call'.error = Err("AssertionError", "a")]_vars

\* C17 as claimed: a pass in which an error was recorded for a generated
\* sub-layer ends with setLayers raising an error.
C17_Claimed ==
  [][(PassStep
        /\ \E i \in 1..Len(layers') :
             /\ objs'[layers'[i]].depth > 0
             /\ <<"error during matching", objs'[layers'[i]].id>> \in call'.warns)
       => /\ call'.outcome = "threw"
          /\ call'.error # NoError]_vars

\* C18 as claimed: a fresh instance whose initializeState hook threw in a pass
\* is INITIALIZED when the pass ends.
C18_Claimed ==
  [][PassStep
       => \A i \in 1..Len(call'.top) :
            (objs'[call'.top[i]].initCalls = 1 /\ objs'[call'.top[i]].ran = "threw"
               /\ objs'[call'.top[i]].cls = "initThrows")
              => objs'[call'.top[i]].lifecycle = INITIALIZED]_vars

\* C19 as claimed: when the update of a matched instance has run in a pass,
\* all its change flags are false after the pass, also when its updateState
\* hook threw.
C19_Claimed ==
  [][PassStep
       => \A i \in 1..Len(call'.top) :
            (Predecessors(call'.top[i]) # {} /\ objs'[call'.top[i]].ran # "none")
              => AllFlagsFalse(sts'[objs'[call'.top[i]].st].changeFlags)]_vars

\* C20: after any sequence of setChangeFlags and clearChangeFlags calls on a
\* layer, propsOrDataChanged is truthy iff dataChanged, updateTriggersChanged
\* or propsChanged is, and somethingChanged is truthy iff propsOrDataChanged or
\* viewportChanged is.
C20_DerivedFlags ==
  /\ Truthy(sts[1].changeFlags.propsOrDataChanged)
       <=> \/ Truthy(sts[1].changeFlags.dataChanged)
           \/ Truthy(sts[1].changeFlags.updateTriggersChanged)
           \/ Truthy(sts[1].changeFlags.propsChanged)
  /\ Truthy(sts[1].changeFlags.somethingChanged)
       <=> \/ Truthy(sts[1].changeFlags.propsOrDataChanged)
           \/ Truthy(sts[1].changeFlags.viewportChanged)

\* setChangeFlags calls have set updateTriggersChanged and nothing else: both
\* derived flags are set
C20_Witness ==
  /\ call.outcome = "flagged"
  /\ sts[1].changeFlags.updateTriggersChanged = {"getSize"}
  /\ ~Truthy(sts[1].changeFlags.dataChanged)
  /\ ~Truthy(sts[1].changeFlags.propsChanged)
  /\ ~Truthy(sts[1].changeFlags.viewportChanged)
  /\ Truthy(sts[1].changeFlags.propsOrDataChanged)
  /\ Truthy(sts[1].changeFlags.somethingChanged)

\* C21 as claimed: a setChangeFlags call leaves every set flag with the value
\* it had (the completion handler of a load between passes; the diff of a
\* matched instance, whose updateState still sees what was set before the pass),
\* and clearChangeFlags has run when the initialize or update of an instance
\* has run in a pass: its flags are all false after the pass.
C21_Claimed ==
  [][/\ \A l \in loads :
          LoadResolves(l)
            => \A s \in 1..Len(sts) : \A f \in DOMAIN NoFlags :
                 Truthy(sts[s].changeFlags[f])
                   => sts'[s].changeFlags[f] = sts[s].changeFlags[f]
     /\ PassStep
          => \A i \in 1..Len(call'.top) :
               /\ \A k \in 1..Len(layers) :
                    (/\ objs[layers[k]].st # Null
                     /\ objs'[call'.top[i]].st = objs'[prevLayers'[k]].st
                     /\ objs'[call'.top[i]].updCalls > 0)
                      => \A f \in DOMAIN NoFlags :
                           Truthy(sts[objs[layers[k]].st].changeFlags[f])
                             => objs'[call'.top[i]].seen[1][f]
                                  = sts[objs[layers[k]].st].changeFlags[f]
               /\ (objs'[call'.top[i]].ran # "none" /\ objs'[call'.top[i]].st # Null)
                    => AllFlagsFalse(sts'[objs'[call'.top[i]].st].changeFlags)]_vars

\* C22 as claimed: when a fetch that LayerObject._loadData started completes,
\* the data of the InternalState becomes its result if its url is the one
\* requested last, and stays as it was if a later pass has requested another
\* url since.
C22_Claimed ==
  [][\A l \in loads :
       LoadResolves(l)
         => IF l.url = sts[objs[l.layer].st].lastUrl
            THEN sts'[objs[l.layer].st].data = Fetched(l.url)
            ELSE sts'[objs[l.layer].st].data = sts[objs[l.layer].st].data]_vars

C24_DeferredDataChanged ==
  [][/\ PassStep
          => \A i \in 1..Len(call'.top) : \A k \in 1..Len(layers) :
               (/\ objs'[call'.top[i]].st # Null
                /\ objs'[call'.top[i]].st = objs'[prevLayers'[k]].st
                /\ call'.top[i] # prevLayers'[k]
                /\ IsString(objs'[call'.top[i]].props.data)
                /\ objs'[call'.top[i]].props.data # objs[layers[k]].props.data
                /\ [layer |-> call'.top[i], url |-> objs'[call'.top[i]].props.data]
                     \in loads'
                /\ ~Truthy(sts[objs[layers[k]].st].changeFlags.dataChanged))
                 => /\ ~Truthy(sts'[objs'[call'.top[i]].st].changeFlags.dataChanged)
                    /\ objs'[call'.top[i]].updCalls > 0
                         => ~Truthy(objs'[call'.top[i]].seen[1].dataChanged)
     /\ \A l \in loads :
          LoadResolves(l)
            => /\ sts'[objs[l.layer].st].data = Fetched(l.url)
               /\ Truthy(sts'[objs[l.layer].st].changeFlags.dataChanged)]_vars

\* a layer with data u1 was matched by a descriptor with data u2: a load for
\* u2 is in flight, updateState was not called and dataChanged is not set
C24_Witness ==
  /\ call.pass
  /\ Len(call.top) = 1 /\ Len(prevLayers) = 1
  /\ objs[call.top[1]].lifecycle = MATCHED
  /\ objs[call.top[1]].props.data = "u2"
  /\ objs[prevLayers[1]].props.data = "u1"
  /\ objs[call.top[1]].st = objs[prevLayers[1]].st
  /\ [layer |-> call.top[1], url |-> "u2"] \in loads
  /\ objs[call.top[1]].updCalls = 0
  /\ ~Truthy(sts[objs[call.top[1]].st].changeFlags.dataChanged)

\* C25: when a fetch whose url is the one requested last completes, dataChanged
\* is set on the InternalState of the live instance that has the id and the
\* state of the layer that started it, also when that is a successor; a step
\* that is no pass leaves a set dataChanged set; and when the next pass has an
\* instance take over a state whose dataChanged is set, its updateState is
\* called and sees dataChanged set.
C25_LoadedDataSeen ==
  [][/\ \A l \in loads :
          (LoadResolves(l) /\ l.url = sts[objs[l.layer].st].lastUrl)
            => \A i \in 1..Len(layers) :
                 (/\ objs[layers[i]].id = objs[l.layer].id
                  /\ objs[layers[i]].st = objs[l.layer].st)
                   => Truthy(sts'[objs'[layers'[i]].st].changeFlags.dataChanged)
     /\ ~PassStep
          => \A s \in 1..Len(sts) :
               Truthy(sts[s].changeFlags.dataChanged)
                 => /\ s \in 1..Len(sts')
                    /\ Truthy(sts'[s].changeFlags.dataChanged)
     /\ PassStep
          => \A i \in 1..Len(call'.top) : \A k \in 1..Len(layers) :
               (/\ objs[layers[k]].st # Null
                /\ Truthy(sts[objs[layers[k]].st].changeFlags.dataChanged)
                /\ objs'[call'.top[i]].id = objs[layers[k]].id
                /\ objs'[call'.top[i]].st = objs'[prevLayers'[k]].st)
                 => /\ objs'[call'.top[i]].updCalls > 0
                    /\ Truthy(objs'[call'.top[i]].seen[1].dataChanged)]_vars

\* the load of u1 completed between two passes and the second pass matched
\* the layer with a descriptor of the same data: updateState was called for
\* the loaded data alone
C25_Witness ==
  /\ call.pass
  /\ Len(call.top) = 1 /\ Len(prevLayers) = 1
  /\ call.top[1] # prevLayers[1]
  /\ objs[call.top[1]].lifecycle = MATCHED
  /\ objs[call.top[1]].props.data = "u1"
  /\ objs[prevLayers[1]].props.data = "u1"
  /\ sts[objs[call.top[1]].st].data = Fetched("u1")
  /\ objs[call.top[1]].updCalls = 1
  /\ Truthy(objs[call.top[1]].seen[1].dataChanged)
  /\ ~Truthy(objs[call.top[1]].seen[1].propsChanged)
  /\ AllFlagsFalse(sts[objs[call.top[1]].st].changeFlags)

\* the last load started for the property has failed: its promise is still
\* held and no fetch is in flight for it
LastLoadFailed ==
  /\ sts[1].asyncValues # Null
  /\ aps[sts[1].asyncValues].loadPromise = aps[sts[1].asyncValues].loadCount
  /\ \A l \in asyncLoads :
       ~(l.ap = sts[1].asyncValues /\ l.count = aps[sts[1].asyncValues].loadCount)

\* C26: the failure of a load leaves the change flags and the value
\* getAsyncProp returns as they were (the empty array when nothing was loaded
\* for the property before), raises no error and starts no load; observing the
\* same string again after the failure starts no load either.
C26_FailedLoad ==
  [][/\ \A l \in asyncLoads :
          AsyncFails(l)
            => /\ sts'[1].changeFlags = sts[1].changeFlags
               /\ Displayed' = Displayed
               /\ (l.ap = sts[1].asyncValues /\ aps[l.ap].loadValue = NullData)
                    => Displayed' = EMPTY_ARRAY
               /\ call'.error = NoError
               /\ Cardinality(asyncLoads') = Cardinality(asyncLoads) - 1
               /\ \A m \in asyncLoads' : \E n \in asyncLoads \ {l} :
                    m.count = n.count /\ m.url = n.url
     /\ \A value \in Urls :
          (LastLoadFailed /\ value = objs[1].props.data /\ SetAsyncProp(value))
            => /\ asyncLoads' = asyncLoads
               /\ aps' = aps
               /\ sts'[1].changeFlags = sts[1].changeFlags
               /\ Displayed' = Displayed]_vars

\* the only load of the property has failed: no flag is set and getAsyncProp
\* returns the empty array
C26_Witness ==
  /\ call.outcome = "rejected"
  /\ LastLoadFailed
  /\ asyncLoads = {}
  /\ aps[sts[1].asyncValues].lastValue = "u1"
  /\ aps[sts[1].asyncValues].loadCount = 1
  /\ aps[sts[1].asyncValues].loadValue = NullData
  /\ AllFlagsFalse(sts[1].changeFlags)
  /\ Displayed = EMPTY_ARRAY

\* C27 as claimed: the loadCount a setAsyncProp call with a string leaves for
\* the property is not below the loadCount of any asyncProp record the property
\* had before, also when inline values were observed in between.
C27_Claimed ==
  [][\A value \in Urls :
       SetAsyncProp(value)
         => \A r \in 1..Len(aps) :
              aps'[sts'[1].asyncValues].loadCount >= aps[r].loadCount]_vars

C29_Claimed ==
  [][\A l \in asyncLoads :
       (/\ AsyncResolves(l)
        /\ ~Truthy(sts[1].changeFlags.dataChanged)
        /\ Truthy(sts'[1].changeFlags.dataChanged))
         => /\ l.ap = sts[1].asyncValues
            /\ Displayed' = Fetched(l.url)]_vars

\* C30 as claimed: after a pass every instance of the previous live list is
\* an instance of the new live list, or is AWAITING_GC with its state held by
\* another instance of the new live list, or is FINALIZED.
C30_Claimed ==
  [][PassStep
       => \A k \in 1..Len(prevLayers') :
            \/ \E h \in 1..Len(layers') : layers'[h] = prevLayers'[k]
            \/ /\ objs'[prevLayers'[k]].lifecycle = AWAITING_GC
               /\ \E h \in 1..Len(layers') :
                    /\ layers'[h] # prevLayers'[k]
                    /\ objs'[layers'[h]].st = objs'[prevLayers'[k]].st
            \/ objs'[prevLayers'[k]].lifecycle = FINALIZED]_vars

\* C31 as claimed: when a descriptor takes over the state of a predecessor
\* whose data prop differs from its own string data, a load for that string is
\* in flight after the pass, also when the string had been loaded before and
\* inline data came in between.
C31_Claimed ==
  [][PassStep
       => \A i \in 1..Len(call'.top) : \A k \in 1..Len(layers) :
            (/\ objs'[call'.top[i]].st # Null
             /\ objs'[call'.top[i]].st = objs'[prevLayers'[k]].st
             /\ call'.top[i] # prevLayers'[k]
             /\ IsString(objs'[call'.top[i]].props.data)
             /\ objs'[call'.top[i]].props.data # objs[layers[k]].props.data)
              => [layer |-> call'.top[i], url |-> objs'[call'.top[i]].props.data]
                   \in loads']_vars

\* C32 as claimed: when the last setLayers call raised an error, a setLayers
\* call with the array of that call is a no-op: it returns without a pass and
\* without an error and changes nothing.
C32_Claimed ==
  [][(call.outcome = "threw" /\ call.ref \in ArrayRefs
        /\ \E arr \in Arrays : SetLayers(call.ref, arr))
       => /\ call'.outcome = "returned"
          /\ ~call'.pass
          /\ UNCHANGED <<objs, sts, layers, prevLayers, lastRenderedLayers,
                         mgrNeedsRedraw, loads>>]_vars

\* C32: when the last setLayers call ran its matching pass and raised an error
\* of it, a setLayers call with the array of that call, made while the viewport
\* is set, is a no-op: it returns without a pass and without an error and
\* changes nothing.
C32_NoRetryAfterError ==
  [][(call.outcome = "threw" /\ call.pass /\ viewport # Null
        /\ \E arr \in Arrays : SetLayers(call.ref, arr))
       => /\ call'.outcome = "returned"
          /\ ~call'.pass
          /\ UNCHANGED <<objs, sts, layers, prevLayers, lastRenderedLayers,
                         mgrNeedsRedraw, loads>>]_vars

\* the last pass finalized a layer whose finalizeState throws, so that setLayers
\* raised the error, and the call after it, with the same array, was ignored
C32_Witness ==
  /\ call.outcome = "returned"
  /\ ~call.pass
  /\ call.ref = lastRenderedLayers
  /\ \E k \in 1..Len(prevLayers) :
       /\ objs[prevLayers[k]].cls = "finThrows"
       /\ objs[prevLayers[k]].lifecycle = FINALIZED
       /\ Len(objs[prevLayers[k]].trail) >= 3
       /\ objs[prevLayers[k]].trail[Len(objs[prevLayers[k]].trail) - 1]
            = AWAITING_FINALIZATION

\* C33 as claimed: a setParameters call with a layerFilter that differs from
\* the one in the context leaves the manager's redraw reason set; a call with
\* the same layerFilter leaves the reason as it was.
C33_Claimed ==
  [][\A f \in LayerFilters :
       SetLayerFilter(f)
         => IF f # layerFilter
            THEN Truthy(mgrNeedsRedraw')
            ELSE mgrNeedsRedraw' = mgrNeedsRedraw]_vars

\* C34 as claimed: after a setChangeFlags call the recorded
\* updateTriggersChanged holds the trigger keys recorded before the call and
\* the keys the call was given.
C34_Claimed ==
  [][\A d, p, v \in FlagValues, t \in TriggerValues :
       SetChangeFlags(Flags(d, p, t, v))
         => /\ sts[1].changeFlags.updateTriggersChanged
                 \subseteq sts'[1].changeFlags.updateTriggersChanged
            /\ t \subseteq sts'[1].changeFlags.updateTriggersChanged]_vars

====
